---- MODULE Spec2Model ----
(***************************************************************************)
(* Kazi Ledger: the text/receipt extractor (services/geminiService, three  *)
(* versions of it in the repository) and the App component that calls it,  *)
(* confirms its results into transactions, settles debts, draws the audit  *)
(* report and keeps one persisted list per signed-in user.                 *)
(***************************************************************************)
EXTENDS Integers, Sequences, FiniteSets, Bags, TLC

VARIABLES
    variant,        \* which version of services/geminiService is built in
    ext,            \* the last completed extractor call, as its caller saw it
    user,           \* the email of state.user (App.tsx:89-93), NoUser for null
    transactions,   \* state.transactions, newest first
    store,          \* the persisted transaction lists, one per user id
    activeTab,      \* App.tsx:94
    inputText,      \* App.tsx:95
    parsing,        \* App.tsx:96
    pendingConfirm, \* App.tsx:98, NoResult for null
    showOnboarding, \* App.tsx:99
    calls,          \* the extraction calls started and not yet returned
    now,            \* the reading of the clock, Date.now()
    reportType,     \* App.tsx:101, NoReport for null
    saved,          \* history: for each email, the list its user last saved
    rendered        \* state.transactions as of the last render, which the
                    \* handlers of that render close over

vars == <<variant, ext, user, transactions, store, activeTab, inputText,
          parsing, pendingConfirm, showOnboarding, calls, now, reportType, saved,
          rendered>>

appVars == <<user, transactions, store, activeTab, inputText, parsing,
             pendingConfirm, showOnboarding, calls, now, reportType, saved,
             rendered>>

----------------------------------------------------------------------------
(* JavaScript values.  Every value is a record of one shape so that values *)
(* of different JavaScript types can be compared.                          *)

Undefined == [k |-> "undefined", s |-> "", n |-> 0]
Null == [k |-> "null", s |-> "", n |-> 0]
Str(x) == [k |-> "string", s |-> x, n |-> 0]
Num(x) == [k |-> "number", s |-> "", n |-> x]

\* ToBoolean: undefined, null, "" and 0 are falsy.
Truthy(v) ==
    CASE v.k = "undefined" -> FALSE
      [] v.k = "null" -> FALSE
      [] v.k = "string" -> v.s # ""
      [] v.k = "number" -> v.n # 0
      [] OTHER -> TRUE

\* a || b
Or(a, b) == IF Truthy(a) THEN a ELSE b

\* An object is a function from its own property names to values.
EmptyObj == [key \in {} |-> Undefined]

\* obj.key : undefined for a property the object does not have.
Get(obj, key) == IF key \in DOMAIN obj THEN obj[key] ELSE Undefined

\* { ...a, ...b } : b's properties win.
Spread(a, b) ==
    [key \in (DOMAIN a) \cup (DOMAIN b) |-> IF key \in DOMAIN b THEN b[key] ELSE a[key]]

\* The object with the listed properties, leaving out those given as Absent.
Absent == [k |-> "absent", s |-> "", n |-> 0]
Obj(f) == [key \in {x \in DOMAIN f : f[x] # Absent} |-> f[key]]

\* `${v}` for the values that occur here.
Template(v) == IF v.k = "number" THEN ToString(v.n) ELSE v.s

----------------------------------------------------------------------------
(* The backing service.  A call of generateContent either rejects or       *)
(* resolves to a response whose text is undefined, the empty string, text  *)
(* that is not JSON, the JSON text null, or the JSON text of an object.    *)

Variants == {"geminiService", "part_000", "TransactionCard"}

Intents == {"RECORD", "QUERY", "UNKNOWN"}
TransactionTypes == {"INCOME", "EXPENSE", "DEBT", "DEBT_PAYMENT"}
QueryRanges == {"today", "week", "month"}

TextBody(t, v) == [t |-> t, v |-> v]
Resolved(body) == [kind |-> "resolved", body |-> body]
Rejected == [kind |-> "rejected", body |-> TextBody("undefined", EmptyObj)]

\* JSON.parse: throws on undefined, "" and malformed text.
JSONParse(body) ==
    CASE body.t = "json" -> [ok |-> TRUE, isNull |-> FALSE, v |-> body.v]
      [] body.t = "null" -> [ok |-> TRUE, isNull |-> TRUE, v |-> EmptyObj]
      [] OTHER -> [ok |-> FALSE, isNull |-> FALSE, v |-> EmptyObj]

\* response.text || "{}"
TextOrEmptyObject(body) ==
    IF body.t \in {"undefined", "empty"} THEN TextBody("json", EmptyObj) ELSE body

\* What a call returns to its caller: a value, or a rejection of its promise.
Returned(v, n) == [threw |-> FALSE, value |-> v, requests |-> n]
Thrown(n) == [threw |-> TRUE, value |-> EmptyObj, requests |-> n]

UnknownResult(raw) == [intent |-> Str("UNKNOWN"), rawText |-> Str(raw)]

----------------------------------------------------------------------------
(* The extractor, services/geminiService: parseInputText and               *)
(* parseReceiptImage in each of the three versions.  env is what the world *)
(* does during the call: the API key the build was given, whether          *)
(* constructing the client throws, and the service's response.             *)

\* The spread written the other way round: { rawText: text, ...parsed }
WithRawText_ParsedWins(parsed, raw) == Spread([rawText |-> Str(raw)], parsed)

\* return { ...parsed, rawText: text }
WithRawText(parsed, raw) == Spread(parsed, [rawText |-> Str(raw)])

\* JSON.parse(...) followed by the return of the spread; a SyntaxError is
\* caught by the enclosing try.
ParseAndReturn(body, raw) ==
    LET p == JSONParse(body)
    IN  IF p.ok THEN Returned(WithRawText(p.v, raw), 1)
        ELSE Returned(UnknownResult(raw), 1)

\* parseInputText written to send the request once more when it was rejected.
parseInputText_geminiService_Retry(text, env) ==
    IF env.ctor = "throws" THEN Returned(UnknownResult(text), 0)
    ELSE IF env.resp.kind = "rejected" THEN Returned(UnknownResult(text), 2)
    ELSE ParseAndReturn(TextOrEmptyObject(env.resp.body), text)

\* services/geminiService.ts: getAI() is called inside the try.
parseInputText_geminiService(text, env) ==
    IF env.ctor = "throws" THEN Returned(UnknownResult(text), 0)
    ELSE IF env.resp.kind = "rejected" THEN Returned(UnknownResult(text), 1)
    ELSE ParseAndReturn(TextOrEmptyObject(env.resp.body), text)

\* unnamed/part_000: the client is constructed before the try, and the
\* response text is parsed as it is.
parseInputText_part_000(text, env) ==
    IF env.ctor = "throws" THEN Thrown(0)
    ELSE IF env.resp.kind = "rejected" THEN Returned(UnknownResult(text), 1)
    ELSE ParseAndReturn(env.resp.body, text)

\* components/TransactionCard.tsx (second half): getAI() returns null when
\* the API key is missing.
parseInputText_TransactionCard(text, env) ==
    IF env.apiKey = "" THEN Returned(UnknownResult(text), 0)
    ELSE IF env.ctor = "throws" THEN Returned(UnknownResult(text), 0)
    ELSE IF env.resp.kind = "rejected" THEN Returned(UnknownResult(text), 1)
    ELSE ParseAndReturn(TextOrEmptyObject(env.resp.body), text)

parseInputText(v, text, env) ==
    CASE v = "geminiService" -> parseInputText_geminiService(text, env)
      [] v = "part_000" -> parseInputText_part_000(text, env)
      [] v = "TransactionCard" -> parseInputText_TransactionCard(text, env)

\* `Receipt from ${parsed.counterparty || 'Unknown'}`
ReceiptRawText(parsed) ==
    "Receipt from " \o Template(Or(Get(parsed, "counterparty"), Str("Unknown")))

\* return { intent: 'RECORD', ...parsed, rawText: `Receipt from ...` }
ReceiptResult(parsed) ==
    Spread(Spread([intent |-> Str("RECORD")], parsed),
           [rawText |-> Str(ReceiptRawText(parsed))])

\* JSON.parse(...) and the return; parsed.counterparty of null is a
\* TypeError, caught like the SyntaxError of JSON.parse.
ParseAndReturnReceipt(body) ==
    LET p == JSONParse(body)
    IN  IF p.ok /\ ~p.isNull THEN Returned(ReceiptResult(p.v), 1)
        ELSE Returned(UnknownResult("Failed to scan receipt"), 1)

parseReceiptImage_geminiService(env) ==
    IF env.ctor = "throws" THEN Returned(UnknownResult("Failed to scan receipt"), 0)
    ELSE IF env.resp.kind = "rejected"
         THEN Returned(UnknownResult("Failed to scan receipt"), 1)
    ELSE ParseAndReturnReceipt(TextOrEmptyObject(env.resp.body))

parseReceiptImage_part_000(env) ==
    IF env.ctor = "throws" THEN Thrown(0)
    ELSE IF env.resp.kind = "rejected"
         THEN Returned(UnknownResult("Failed to scan receipt"), 1)
    ELSE ParseAndReturnReceipt(env.resp.body)

parseReceiptImage_TransactionCard(env) ==
    IF env.apiKey = "" THEN Returned(UnknownResult("AI service unavailable"), 0)
    ELSE IF env.ctor = "throws"
         THEN Returned(UnknownResult("Failed to scan receipt"), 0)
    ELSE IF env.resp.kind = "rejected"
         THEN Returned(UnknownResult("Failed to scan receipt"), 1)
    ELSE ParseAndReturnReceipt(TextOrEmptyObject(env.resp.body))

parseReceiptImage(v, env) ==
    CASE v = "geminiService" -> parseReceiptImage_geminiService(env)
      [] v = "part_000" -> parseReceiptImage_part_000(env)
      [] v = "TransactionCard" -> parseReceiptImage_TransactionCard(env)

----------------------------------------------------------------------------
(* The inputs the extractor is exercised on.                               *)

ExtractTexts == {"Musa paid back 5000", "Paid rent 300000", "asdf qwer"}

IntentValues == {Absent, Str("RECORD"), Str("QUERY"), Str("UNKNOWN"), Str("DELETE")}
TypeValues == {Absent, Str("INCOME"), Str("EXPENSE"), Str("DEBT"),
               Str("DEBT_PAYMENT"), Str("LOAN")}
AmountValues == {Absent, Null, Num(5000), Num(0), Num(-5), Str("5k")}
CategoryValues == {Absent, Str("Sales")}
CounterpartyValues == {Absent, Str("Musa"), Str("")}
QueryRangeValues == {Absent, Str("today"), Str("year")}
RawTextValues == {Absent, Str("injected")}

ResponseObjects ==
    { Obj([intent |-> i, type |-> t, amount |-> a, category |-> c,
           counterparty |-> p, queryRange |-> q, rawText |-> r]) :
        i \in IntentValues, t \in TypeValues, a \in AmountValues,
        c \in CategoryValues, p \in CounterpartyValues,
        q \in QueryRangeValues, r \in RawTextValues }

Bodies(objects) ==
    {TextBody("undefined", EmptyObj), TextBody("empty", EmptyObj),
     TextBody("malformed", EmptyObj), TextBody("null", EmptyObj)}
    \cup {TextBody("json", o) : o \in objects}

Responses(objects) == {Rejected} \cup {Resolved(b) : b \in Bodies(objects)}

\* Without a key no request succeeds; a client that was never constructed
\* sends none.
Envs(objects) ==
    { e \in [apiKey : {"", "key"}, ctor : {"ok", "throws"}, resp : Responses(objects)] :
        /\ e.ctor = "throws" => e.resp = Rejected
        /\ e.apiKey = "" => e.resp = Rejected }

NoEnv == [apiKey |-> "", ctor |-> "ok", resp |-> Rejected]
NoOutcome == Returned(EmptyObj, 0)
NoCall == [fn |-> "none", text |-> "", env |-> NoEnv, returned |-> FALSE, out |-> NoOutcome]

----------------------------------------------------------------------------
(* The App component's state after construction (App.tsx:89-104) with no   *)
(* stored user.                                                            *)

\* An email address is the sequence of its character codes.
\* "musa@kazi.com", whose owner uses the device
FirstEmail == <<109, 117, 115, 97, 64, 107, 97, 122, 105, 46, 99, 111, 109>>
\* "musa@kazimart.com", who signs in on the same device
SecondEmail == <<109, 117, 115, 97, 64, 107, 97, 122, 105, 109, 97, 114, 116,
                 46, 99, 111, 109>>
Emails == {FirstEmail, SecondEmail}

Base64Alphabet ==
    <<"A", "B", "C", "D", "E", "F", "G", "H", "I", "J", "K", "L", "M", "N", "O", "P",
      "Q", "R", "S", "T", "U", "V", "W", "X", "Y", "Z", "a", "b", "c", "d", "e", "f",
      "g", "h", "i", "j", "k", "l", "m", "n", "o", "p", "q", "r", "s", "t", "u", "v",
      "w", "x", "y", "z", "0", "1", "2", "3", "4", "5", "6", "7", "8", "9", "+", "/">>

\* The k-th character of btoa(bytes): three bytes make four characters of
\* six bits each, and "=" pads the last group.
Base64Char(bytes, k) ==
    LET g == (k - 1) \div 4
        r == (k - 1) % 4
        byte(i) == IF i <= Len(bytes) THEN bytes[i] ELSE 0
        b1 == byte(3 * g + 1)
        b2 == byte(3 * g + 2)
        b3 == byte(3 * g + 3)
        six == CASE r = 0 -> b1 \div 4
                 [] r = 1 -> (b1 % 4) * 16 + (b2 \div 16)
                 [] r = 2 -> (b2 % 16) * 4 + (b3 \div 64)
                 [] r = 3 -> b3 % 64
    IN  IF (r = 2 /\ 3 * g + 2 > Len(bytes)) \/ (r = 3 /\ 3 * g + 3 > Len(bytes))
        THEN "="
        ELSE Base64Alphabet[six + 1]

btoa(bytes) == [k \in 1..(4 * ((Len(bytes) + 2) \div 3)) |-> Base64Char(bytes, k)]

\* s.substring(0, n)
substring(s, n) == SubSeq(s, 1, IF n < Len(s) THEN n ELSE Len(s))

\* The id handleLogin gives the user (App.tsx:122)
userId(email) == substring(btoa(email), 10)

UserIds == {userId(e) : e \in Emails}
NoUser == <<>>
NoReport == "null"
NoResult == [isNull |-> TRUE]
Tabs == {"dashboard", "history", "record", "debts", "settings"}

AppInit ==
    /\ user = NoUser
    /\ transactions = <<>>
    /\ store = [u \in UserIds |-> <<>>]
    /\ activeTab = "dashboard"
    /\ inputText = ""
    /\ parsing = FALSE
    /\ pendingConfirm = NoResult
    /\ showOnboarding = FALSE
    /\ calls = EmptyBag
    /\ now = 0
    /\ reportType = NoReport
    /\ saved = [e \in Emails |-> <<>>]
    /\ rendered = <<>>

----------------------------------------------------------------------------
(* The extractor on its own: one call at a time, on every input and every  *)
(* behaviour of the backing service, in each version.                      *)

ExtractInit ==
    /\ variant \in Variants
    /\ \E env \in Envs(ResponseObjects) :
          \/ \E text \in ExtractTexts :
                ext = [fn |-> "parseInputText", text |-> text, env |-> env,
                       returned |-> FALSE, out |-> NoOutcome]
          \/ ext = [fn |-> "parseReceiptImage", text |-> "", env |-> env,
                    returned |-> FALSE, out |-> NoOutcome]
    /\ AppInit

\* The text call written as if the extractor put what it found into the
\* ledger itself.
ExtractText_Commits ==
    /\ ext.fn = "parseInputText"
    /\ ~ext.returned
    /\ ext' = [ext EXCEPT !.returned = TRUE,
                          !.out = parseInputText(variant, ext.text, ext.env)]
    /\ transactions' = <<ext'.out.value>> \o transactions
    /\ UNCHANGED <<variant, user, store, activeTab, inputText, parsing,
                   pendingConfirm, showOnboarding, calls, now, reportType,
                   saved, rendered>>

ExtractText ==
    /\ ext.fn = "parseInputText"
    /\ ~ext.returned
    /\ ext' = [ext EXCEPT !.returned = TRUE,
                          !.out = parseInputText(variant, ext.text, ext.env)]
    /\ UNCHANGED <<variant, appVars>>

ExtractReceipt ==
    /\ ext.fn = "parseReceiptImage"
    /\ ~ext.returned
    /\ ext' = [ext EXCEPT !.returned = TRUE,
                          !.out = parseReceiptImage(variant, ext.env)]
    /\ UNCHANGED <<variant, appVars>>

ExtractNext == ExtractText \/ ExtractReceipt

SpecExtract == ExtractInit /\ [][ExtractNext]_vars

\* The ways the backing call can fail.
BackingCallFails(env) ==
    \/ env.ctor = "throws"
    \/ env.apiKey = ""
    \/ env.resp.kind = "rejected"
    \/ env.resp.kind = "resolved" /\ env.resp.body.t = "malformed"

\* A response object fails the declared schema (types.ts:26-34): intent or
\* type outside its enumeration, queryRange outside today/week/month, or an
\* amount that is not a number (null stands for an absent value in the
\* schema of unnamed/part_000).
FailsSchema(o) ==
    \/ Get(o, "intent") \notin {Undefined} \cup {Str(i) : i \in Intents}
    \/ Get(o, "type") \notin {Undefined} \cup {Str(t) : t \in TransactionTypes}
    \/ Get(o, "queryRange") \notin {Undefined} \cup {Str(q) : q \in QueryRanges}
    \/ Get(o, "amount").k \notin {"undefined", "null", "number"}

\* C1: parseInputText never throws to its caller; whenever the backing call
\* fails (client construction, missing key, rejected request, text that is
\* not JSON) it returns exactly { intent: 'UNKNOWN', rawText: text }.
C1_FailureDegradesToUnknown ==
    (ext.fn = "parseInputText" /\ ext.returned) =>
        /\ ~ext.out.threw
        /\ BackingCallFails(ext.env) => ext.out.value = UnknownResult(ext.text)

\* C2: a response that is JSON but violates the schema comes back from
\* parseInputText with intent UNKNOWN.
C2_InvalidResponseIsUnknown ==
    ( /\ ext.fn = "parseInputText"
      /\ ext.returned
      /\ ext.env.ctor = "ok"
      /\ ext.env.resp.kind = "resolved"
      /\ ext.env.resp.body.t = "json"
      /\ FailsSchema(ext.env.resp.body.v) )
    => (~ext.out.threw /\ Get(ext.out.value, "intent") = Str("UNKNOWN"))

\* C3: every result returned by parseInputText or parseReceiptImage has an
\* intent that is RECORD, QUERY or UNKNOWN.
C3_IntentInEnumeration ==
    (ext.returned /\ ~ext.out.threw) =>
        Get(ext.out.value, "intent") \in {Str(i) : i \in Intents}

\* C4: in a result of parseInputText, type, amount, category and
\* counterparty are present only with intent RECORD, queryRange only with
\* intent QUERY, and an UNKNOWN result has only intent and rawText.
C4_FieldsMatchIntent ==
    (ext.fn = "parseInputText" /\ ext.returned /\ ~ext.out.threw) =>
        LET r == ext.out.value
        IN  /\ \A f \in {"type", "amount", "category", "counterparty"} :
                  f \in DOMAIN r => Get(r, "intent") = Str("RECORD")
            /\ "queryRange" \in DOMAIN r => Get(r, "intent") = Str("QUERY")
            /\ Get(r, "intent") = Str("UNKNOWN") => DOMAIN r = {"intent", "rawText"}

\* C5: the rawText of every result returned by parseInputText is the input
\* text, also when the response object has a rawText of its own.
C5_RawTextIsInput ==
    (ext.fn = "parseInputText" /\ ext.returned /\ ~ext.out.threw) =>
        Get(ext.out.value, "rawText") = Str(ext.text)

C5_Witness ==
    /\ ext.fn = "parseInputText"
    /\ ext.returned
    /\ ~ext.out.threw
    /\ ext.env.ctor = "ok"
    /\ ext.env.resp.kind = "resolved"
    /\ ext.env.resp.body.t = "json"
    /\ "rawText" \in DOMAIN ext.env.resp.body.v
    /\ ext.env.resp.body.v["rawText"] # Str(ext.text)
    /\ Get(ext.out.value, "intent") = Str("RECORD")

\* C13: a call of parseInputText or parseReceiptImage sends at most one
\* request to the backing service, also when the request is rejected or its
\* response cannot be parsed.
C13_AtMostOneRequest == ext.returned => ext.out.requests <= 1

C13_Witness ==
    /\ variant = "geminiService"
    /\ ext.fn = "parseInputText"
    /\ ext.returned
    /\ ext.env.ctor = "ok"
    /\ ext.env.resp.kind = "rejected"
    /\ ext.out.requests = 1
    /\ ext.out.value = UnknownResult(ext.text)

\* C22: a call of parseInputText or parseReceiptImage, from its start to
\* its return, leaves the committed transaction list, the persisted store
\* and the user as they were.
C22_ExtractorLeavesAppState ==
    [][ (~ext.returned /\ ext'.returned)
        => /\ transactions' = transactions
           /\ store' = store
           /\ user' = user ]_vars

C22_Witness ==
    /\ ext.returned
    /\ ~ext.out.threw
    /\ Get(ext.out.value, "intent") = Str("RECORD")
    /\ Get(ext.out.value, "amount") # Undefined
    /\ transactions = <<>>
    /\ user = NoUser

\* C20: the type of a RECORD result follows the precedence of the rules:
\* "Musa paid back 5000" is a DEBT_PAYMENT with counterparty Musa (a
\* repayment phrase with a named party comes first), "Paid rent 300000" is an
\* EXPENSE (an outflow verb).
C20_TypeByPrecedence ==
    ( /\ ext.fn = "parseInputText"
      /\ ext.returned
      /\ ~ext.out.threw
      /\ Get(ext.out.value, "intent") = Str("RECORD") )
    => /\ ext.text = "Musa paid back 5000"
            => /\ Get(ext.out.value, "type") = Str("DEBT_PAYMENT")
               /\ Get(ext.out.value, "counterparty") = Str("Musa")
       /\ ext.text = "Paid rent 300000"
            => Get(ext.out.value, "type") = Str("EXPENSE")

----------------------------------------------------------------------------
(* The App component (App.tsx).                                            *)

MaxTx == 2        \* transactions committed in one run
MaxCalls == 2     \* extraction calls in flight at once
MaxClock == 1     \* readings of the clock after the first

\* The quick-action chips the user taps, of the four of App.tsx:376.
Chips == {"Musa owes 10k"}
\* What the user types into the entry bar.
TypedTexts == {"", "Musa owes 10k"}

\* text.trim() is empty
IsBlank(t) == t \in {"", " ", "  "}

\* name.trim() for the names that occur
TrimStr(t) == IF t = "Musa " THEN "Musa" ELSE IF IsBlank(t) THEN "" ELSE t

\* The responses the service gives the App: a complete record, a record
\* with no counterparty, no category and a negative amount, a record with
\* nothing but its intent and an empty category, queries with and without a
\* range, and UNKNOWN.
TextResponseObjects ==
    { [intent |-> Str("RECORD"), type |-> Str("DEBT"), amount |-> Num(10000),
       category |-> Str("Credit"), counterparty |-> Str("Musa")],
      [intent |-> Str("RECORD"), type |-> Str("DEBT"), amount |-> Num(-5)],
      [intent |-> Str("RECORD"), category |-> Str("")],
      [intent |-> Str("QUERY"), queryRange |-> Str("today")],
      [intent |-> Str("QUERY")],
      [intent |-> Str("UNKNOWN")] }

ReceiptResponseObjects ==
    { [type |-> Str("EXPENSE"), amount |-> Num(12000), category |-> Str("Stock"),
       counterparty |-> Str("Shop")],
      [amount |-> Num(12000), category |-> Str("Stock")] }

\* new Date().toISOString() at clock reading t
toISOString(t) == <<"ISO", t>>

TextCall(text) == [kind |-> "text", text |-> text]
ReceiptCall == [kind |-> "receipt", text |-> ""]

LoggedIn == user # NoUser

\* The tabbed screen is rendered (App.tsx:259, 308).
MainShown == LoggedIn /\ ~showOnboarding

\* The entry bar shows the text input (App.tsx:466-486): neither the
\* spinner nor the Verify Detail panel is in its place.
InputShown == activeTab = "record" /\ ~parsing /\ pendingConfirm = NoResult

\* The versions of the extractor as the App sees them: the one of
\* components/TransactionCard.tsx returns to the App what
\* services/geminiService.ts returns.
AppVariants == {"geminiService", "part_000"}

Init ==
    /\ variant \in AppVariants
    /\ ext = NoCall
    /\ AppInit

\* App.tsx:117-131
handleLogin(email) ==
    /\ ~LoggedIn
    /\ LET txs == store[userId(email)]
       IN  /\ user' = email
           /\ transactions' = txs
           /\ showOnboarding' = (Len(txs) = 0)
           /\ rendered' = txs
    /\ UNCHANGED <<variant, ext, reportType, saved, store, activeTab, inputText, parsing,
                   pendingConfirm, calls, now>>

\* The Log Out button (App.tsx:412): logoutUser forgets the stored user and
\* the page is loaded again, which leaves the App as constructed with no
\* stored user; what was persisted stays.
logoutUser ==
    /\ MainShown
    /\ activeTab = "settings"
    /\ user' = NoUser
    /\ transactions' = <<>>
    /\ activeTab' = "dashboard"
    /\ inputText' = ""
    /\ parsing' = FALSE
    /\ pendingConfirm' = NoResult
    /\ showOnboarding' = FALSE
    /\ calls' = EmptyBag
    /\ reportType' = NoReport
    /\ rendered' = <<>>
    /\ UNCHANGED <<variant, ext, saved, store, now>>

\* The page is loaded again while a user is stored: the App is constructed
\* anew and the Initial Data Load effect (App.tsx:107-115) takes the stored
\* user and the list persisted for its id.  handleLogin has stored the user
\* it set (App.tsx:127), so the stored user is the one signed in.  What was
\* typed, pending or in flight is gone with the old page.
Reload ==
    /\ LoggedIn
    /\ activeTab' = "dashboard"
    /\ inputText' = ""
    /\ parsing' = FALSE
    /\ pendingConfirm' = NoResult
    /\ showOnboarding' = FALSE
    /\ calls' = EmptyBag
    /\ reportType' = NoReport
    /\ UNCHANGED <<variant, ext, user, store, saved, now>>
    /\ transactions' = store[userId(user)]
    /\ rendered' = transactions'

\* onFinish of the onboarding slides (App.tsx:308)
FinishOnboarding ==
    /\ LoggedIn
    /\ showOnboarding
    /\ showOnboarding' = FALSE
    /\ UNCHANGED <<variant, ext, reportType, saved, rendered, user, transactions, store, activeTab, inputText,
                   parsing, pendingConfirm, calls, now>>

\* The footer and header buttons (App.tsx:323, 351, 454-458).
Navigate(tab) ==
    /\ MainShown
    /\ tab # activeTab
    /\ activeTab' = tab
    /\ UNCHANGED <<variant, ext, reportType, saved, rendered, showOnboarding, user, transactions, store, inputText, parsing,
                   pendingConfirm, calls, now>>

\* onChange of the text input (App.tsx:478)
TypeText(t) ==
    /\ MainShown
    /\ InputShown
    /\ t # inputText
    /\ inputText' = t
    /\ UNCHANGED <<variant, ext, reportType, saved, rendered, showOnboarding, user, transactions, store, activeTab, parsing,
                   pendingConfirm, calls, now>>

\* handleAction up to its await (App.tsx:151-156)
handleAction_start(textToParse) ==
    /\ ~IsBlank(textToParse)
    /\ BagCardinality(calls) < MaxCalls
    /\ parsing' = TRUE
    /\ calls' = calls (+) SetToBag({TextCall(textToParse)})

\* Enter in the text input, or the send button (App.tsx:479, 484)
SubmitTyped ==
    /\ MainShown
    /\ InputShown
    /\ handleAction_start(inputText)
    /\ UNCHANGED <<variant, ext, reportType, saved, rendered, showOnboarding, user, transactions, store, activeTab, inputText,
                   pendingConfirm, now>>

\* A quick-action chip (App.tsx:376-378)
TapChip(chip) ==
    /\ MainShown
    /\ activeTab = "record"
    /\ inputText' = chip
    /\ handleAction_start(chip)
    /\ UNCHANGED <<variant, ext, reportType, saved, rendered, showOnboarding, user, transactions, store, activeTab,
                   pendingConfirm, now>>

\* handleFileUpload up to reader.readAsDataURL (App.tsx:170-187), from the
\* Scan Invoice input (App.tsx:367-371)
handleFileUpload_start ==
    /\ MainShown
    /\ activeTab = "record"
    /\ BagCardinality(calls) < MaxCalls
    /\ parsing' = TRUE
    /\ calls' = calls (+) SetToBag({ReceiptCall})
    /\ UNCHANGED <<variant, ext, reportType, saved, rendered, showOnboarding, user, transactions, store, activeTab, inputText,
                   pendingConfirm, now>>

\* handleAction written to commit a RECORD result as soon as it arrives,
\* without the Verify Detail panel.
handleAction_resume_Commits(c, out) ==
    /\ BagIn(c, calls)
    /\ c.kind = "text"
    /\ ~out.threw
    /\ Get(out.value, "intent") = Str("RECORD")
    /\ LoggedIn
    /\ Len(transactions) < MaxTx
    /\ parsing' = FALSE
    /\ transactions' =
          <<[id |-> ToString(now),
             type |-> Or(Get(out.value, "type"), Str("INCOME")),
             amount |-> Or(Get(out.value, "amount"), Num(0)),
             category |-> Or(Get(out.value, "category"), Str("General")),
             counterparty |-> Get(out.value, "counterparty"),
             date |-> <<"ISO", now>>]>> \o transactions
    /\ store' = [store EXCEPT ![userId(user)] = transactions']
    /\ saved' = [saved EXCEPT ![user] = transactions']
    /\ activeTab' = "dashboard"
    /\ calls' = calls (-) SetToBag({c})
    /\ rendered' = transactions'
    /\ UNCHANGED <<variant, ext, reportType, showOnboarding, user, inputText,
                   pendingConfirm, now>>

\* handleAction written without the test of result.queryRange: every QUERY
\* result switches to the history tab.
handleAction_resume_AlwaysHistory(c, out) ==
    /\ BagIn(c, calls)
    /\ c.kind = "text"
    /\ LET result == out.value
       IN  IF out.threw
           THEN UNCHANGED <<parsing, pendingConfirm, activeTab, inputText>>
           ELSE /\ parsing' = FALSE
                /\ IF Get(result, "intent") = Str("RECORD")
                   THEN /\ pendingConfirm' = result
                        /\ activeTab' = "record"
                        /\ UNCHANGED inputText
                   ELSE IF Get(result, "intent") = Str("QUERY")
                   THEN /\ activeTab' = "history"
                        /\ inputText' = ""
                        /\ UNCHANGED pendingConfirm
                   ELSE UNCHANGED <<pendingConfirm, activeTab, inputText>>
    /\ calls' = calls (-) SetToBag({c})
    /\ UNCHANGED <<variant, ext, reportType, saved, rendered, showOnboarding, user, transactions, store, now>>

\* handleAction after its await (App.tsx:156-167).  A rejection of
\* parseInputText ends the handler there.
handleAction_resume(c, out) ==
    /\ BagIn(c, calls)
    /\ c.kind = "text"
    /\ LET result == out.value
       IN  IF out.threw
           THEN UNCHANGED <<parsing, pendingConfirm, activeTab, inputText>>
           ELSE /\ parsing' = FALSE
                /\ IF Get(result, "intent") = Str("RECORD")
                   THEN /\ pendingConfirm' = result
                        /\ activeTab' = "record"
                        /\ UNCHANGED inputText
                   ELSE IF Get(result, "intent") = Str("QUERY")
                   THEN /\ activeTab' = IF Truthy(Get(result, "queryRange"))
                                        THEN "history" ELSE activeTab
                        /\ inputText' = ""
                        /\ UNCHANGED pendingConfirm
                   ELSE UNCHANGED <<pendingConfirm, activeTab, inputText>>
    /\ calls' = calls (-) SetToBag({c})
    /\ UNCHANGED <<variant, ext, reportType, saved, rendered, showOnboarding, user, transactions, store, now>>

\* reader.onloadend (App.tsx:177-186).  When the file could not be read,
\* reader.result is null and the callback ends in a TypeError; so it does
\* when parseReceiptImage rejects.
onloadend(c, readOk, out) ==
    /\ BagIn(c, calls)
    /\ c.kind = "receipt"
    /\ LET result == out.value
       IN  IF ~readOk \/ out.threw
           THEN UNCHANGED <<parsing, pendingConfirm>>
           ELSE /\ parsing' = FALSE
                /\ pendingConfirm' = IF Get(result, "intent") = Str("RECORD")
                                     THEN result ELSE pendingConfirm
    /\ calls' = calls (-) SetToBag({c})
    /\ UNCHANGED <<variant, ext, reportType, saved, rendered, showOnboarding, user, transactions, store, activeTab, inputText, now>>

\* The X of the Verify Detail panel (App.tsx:470)
DismissConfirm ==
    /\ MainShown
    /\ activeTab = "record"
    /\ pendingConfirm # NoResult
    /\ pendingConfirm' = NoResult
    /\ UNCHANGED <<variant, ext, reportType, saved, rendered, showOnboarding, user, transactions, store, activeTab, inputText,
                   parsing, calls, now>>

\* newTx written without the default of the amount: amount: pendingConfirm.amount
NewTx_AmountAsIs(pc, t) ==
    [id |-> ToString(t),
     type |-> Or(Get(pc, "type"), Str("INCOME")),
     amount |-> Get(pc, "amount"),
     category |-> Or(Get(pc, "category"), Str("General")),
     counterparty |-> Get(pc, "counterparty"),
     date |-> toISOString(t)]

\* newTx written without the default of the category:
\* category: pendingConfirm.category
NewTx_CategoryAsIs(pc, t) ==
    [id |-> ToString(t),
     type |-> Or(Get(pc, "type"), Str("INCOME")),
     amount |-> Or(Get(pc, "amount"), Num(0)),
     category |-> Get(pc, "category"),
     counterparty |-> Get(pc, "counterparty"),
     date |-> toISOString(t)]

\* App.tsx:197-204
NewTx(pc, t) ==
    [id |-> ToString(t),
     type |-> Or(Get(pc, "type"), Str("INCOME")),
     amount |-> Or(Get(pc, "amount"), Num(0)),
     category |-> Or(Get(pc, "category"), Str("General")),
     counterparty |-> Get(pc, "counterparty"),
     date |-> toISOString(t)]

\* saveTransactions(userId, txs)
saveTransactions(st, u, txs) == [st EXCEPT ![u] = txs]

\* React renders again after a handler that set the state, before it
\* dispatches the next event: the handlers of the new render close over the
\* new list.
Rerender == rendered' = transactions'

\* confirmTransaction written to persist the list it found:
\* saveTransactions(state.user.id, state.transactions)
confirmTransaction_SavesOld ==
    /\ MainShown
    /\ activeTab = "record"
    /\ pendingConfirm # NoResult
    /\ LoggedIn
    /\ Len(rendered) < MaxTx
    /\ LET updated == <<NewTx(pendingConfirm, now)>> \o rendered
       IN  /\ transactions' = updated
           /\ store' = saveTransactions(store, userId(user), rendered)
           /\ saved' = [saved EXCEPT ![user] = rendered]
    /\ pendingConfirm' = NoResult
    /\ inputText' = ""
    /\ activeTab' = "dashboard"
    /\ UNCHANGED <<variant, ext, reportType, showOnboarding, user, parsing, calls, now>>

\* App.tsx:194-212, from the Confirm Entry button (App.tsx:472).  The
\* handler takes state.transactions from the render it belongs to.
confirmTransaction ==
    /\ MainShown
    /\ activeTab = "record"
    /\ pendingConfirm # NoResult
    /\ LoggedIn
    /\ Len(rendered) < MaxTx
    /\ LET updated == <<NewTx(pendingConfirm, now)>> \o rendered
       IN  /\ transactions' = updated
           /\ store' = saveTransactions(store, userId(user), updated)
           /\ saved' = [saved EXCEPT ![user] = updated]
    /\ pendingConfirm' = NoResult
    /\ inputText' = ""
    /\ activeTab' = "dashboard"
    /\ UNCHANGED <<variant, ext, reportType, showOnboarding, user, parsing, calls, now>>

\* paymentTx written with the type of a sale: type: TransactionType.INCOME
PaymentTx_AsIncome(name, balance, t) ==
    [id |-> ToString(t),
     type |-> Str("INCOME"),
     amount |-> Num(balance),
     category |-> Str("Settlement"),
     counterparty |-> Str(name),
     date |-> toISOString(t)]

\* App.tsx:216-223
PaymentTx(name, balance, t) ==
    [id |-> ToString(t),
     type |-> Str("DEBT_PAYMENT"),
     amount |-> Num(balance),
     category |-> Str("Settlement"),
     counterparty |-> Str(name),
     date |-> toISOString(t)]

\* The balance of one name over a list (App.tsx:230-238).
RECURSIVE BalanceOf(_, _)
BalanceOf(name, txs) ==
    IF txs = <<>> THEN 0
    ELSE LET tx == Head(txs)
             mine == Truthy(tx.counterparty) /\ TrimStr(tx.counterparty.s) = name
             delta == IF ~mine THEN 0
                      ELSE IF tx.type = Str("DEBT") THEN tx.amount.n
                      ELSE IF tx.type = Str("DEBT_PAYMENT") THEN 0 - tx.amount.n
                      ELSE 0
         IN  delta + BalanceOf(name, Tail(txs))

\* App.tsx:229-242
debtBalances(txs) ==
    LET names == {TrimStr(txs[j].counterparty.s) :
                    j \in {x \in 1..Len(txs) : Truthy(txs[x].counterparty)}}
    IN  {[name |-> nm, balance |-> BalanceOf(nm, txs)] :
            nm \in {x \in names : BalanceOf(x, txs) > 0}}

\* App.tsx:214-227, from the Settle button (App.tsx:399) of a debtor that
\* the render lists.  The handler takes state.transactions from the render
\* it belongs to.
clearFullDebt(d) ==
    /\ MainShown
    /\ activeTab = "debts"
    /\ d \in debtBalances(rendered)
    /\ LoggedIn
    /\ LET updated == <<PaymentTx(d.name, d.balance, now)>> \o rendered
       IN  /\ transactions' = updated
           /\ store' = saveTransactions(store, userId(user), updated)
           /\ saved' = [saved EXCEPT ![user] = updated]
    /\ UNCHANGED <<variant, ext, reportType, showOnboarding, user, activeTab, inputText, parsing,
                   pendingConfirm, calls, now>>

\* Time passes.
Tick ==
    /\ now < MaxClock
    /\ now' = now + 1
    /\ UNCHANGED <<variant, ext, reportType, saved, rendered, showOnboarding, user, transactions, store, activeTab, inputText,
                   parsing, pendingConfirm, calls>>

\* What parseInputText(text) and parseReceiptImage can return to the App.
TextOutcomes(text) ==
    {parseInputText(variant, text, env) : env \in Envs(TextResponseObjects)}

ReceiptOutcomes ==
    {parseReceiptImage(variant, env) : env \in Envs(ReceiptResponseObjects)}

Next ==
    \/ handleLogin(FirstEmail)
    \/ logoutUser
    \/ Reload
    \/ FinishOnboarding
    \/ \E tab \in Tabs : Navigate(tab)
    \/ \E t \in TypedTexts : TypeText(t)
    \/ SubmitTyped
    \/ \E chip \in Chips : TapChip(chip)
    \/ handleFileUpload_start
    \/ \E c \in BagToSet(calls) : \E out \in TextOutcomes(c.text) :
          handleAction_resume(c, out)
    \/ \E c \in BagToSet(calls) : \E out \in ReceiptOutcomes : onloadend(c, TRUE, out)
    \/ \E c \in BagToSet(calls) : onloadend(c, FALSE, NoOutcome)
    \/ DismissConfirm
    \/ confirmTransaction /\ Rerender
    \/ \E d \in debtBalances(rendered) : clearFullDebt(d) /\ Rerender
    \/ Tick

Spec == Init /\ [][Next]_vars

\* Every call is answered in the end, and the event loop then runs the
\* continuation of handleAction; every read of a file ends, and the event
\* loop then runs reader.onloadend.
TextAnswered ==
    \E c \in BagToSet(calls) : \E out \in TextOutcomes(c.text) :
        handleAction_resume(c, out)

ReceiptAnswered ==
    \E c \in BagToSet(calls) :
        \/ \E out \in ReceiptOutcomes : onloadend(c, TRUE, out)
        \/ onloadend(c, FALSE, NoOutcome)

SpecLive == Init /\ [][Next]_vars /\ WF_vars(TextAnswered) /\ WF_vars(ReceiptAnswered)

\* The device is shared: two people sign in on it, one after the other, and
\* record by tapping the chip.
InitUsers ==
    /\ variant = "geminiService"
    /\ ext = NoCall
    /\ AppInit

NextUsers ==
    \/ \E email \in Emails : handleLogin(email)
    \/ logoutUser
    \/ FinishOnboarding
    \/ \E tab \in Tabs : Navigate(tab)
    \/ \E chip \in Chips : TapChip(chip)
    \/ \E c \in BagToSet(calls) : \E out \in TextOutcomes(c.text) :
          handleAction_resume(c, out)
    \/ DismissConfirm
    \/ confirmTransaction /\ Rerender
    \/ Tick

SpecUsers == InitUsers /\ [][NextUsers]_vars

----------------------------------------------------------------------------
(* The audit report (App.tsx:244-255) and the totals of the dashboard      *)
(* (App.tsx:310-313), on lists of transactions as confirmTransaction and   *)
(* clearFullDebt make them: amounts are numbers, the newest comes first.   *)

\* Readings of the clock in one day; the device keeps UTC.
DayLength == 4

ReportTypes == {"daily", "weekly", "monthly"}

\* new Date(t.date)
DateOf(tx) == tx.date[2]

\* startDate.setHours(0, 0, 0, 0)
startOfDay(t) == t - (t % DayLength)

\* App.tsx:246-249
startDate(type, t) ==
    CASE type = "daily" -> startOfDay(t)
      [] type = "weekly" -> t - 7 * DayLength
      [] type = "monthly" -> t - 30 * DayLength

\* .reduce((sum, t) => sum + t.amount, 0)
RECURSIVE reduceAmounts(_, _)
reduceAmounts(txs, sum) ==
    IF txs = <<>> THEN sum
    ELSE reduceAmounts(Tail(txs), sum + Head(txs).amount.n)

\* The report written without the repayments in its inflow.
reportData_IncomeOnly(type, txs, t) ==
    LET filtered == SelectSeq(txs, LAMBDA tx : DateOf(tx) >= startDate(type, t))
        income == reduceAmounts(SelectSeq(filtered, LAMBDA tx : tx.type = Str("INCOME")), 0)
        expenses == reduceAmounts(
                        SelectSeq(filtered, LAMBDA tx : tx.type = Str("EXPENSE")), 0)
    IN  [net |-> income - expenses, totalIn |-> income, totalOut |-> expenses,
         transactions |-> filtered, period |-> type]

\* App.tsx:244-255
reportData(type, txs, t) ==
    LET filtered == SelectSeq(txs, LAMBDA tx : DateOf(tx) >= startDate(type, t))
        income == reduceAmounts(
                      SelectSeq(filtered, LAMBDA tx : tx.type = Str("INCOME")
                                                      \/ tx.type = Str("DEBT_PAYMENT")), 0)
        expenses == reduceAmounts(
                        SelectSeq(filtered, LAMBDA tx : tx.type = Str("EXPENSE")), 0)
    IN  [net |-> income - expenses, totalIn |-> income, totalOut |-> expenses,
         transactions |-> filtered, period |-> type]

\* new Date(...).toDateString(): the calendar day
toDateString(t) == t \div DayLength

\* App.tsx:310-311
todayTxs(txs, t) == SelectSeq(txs, LAMBDA tx : toDateString(DateOf(tx)) = toDateString(t))

\* App.tsx:312
incomeToday(txs, t) ==
    reduceAmounts(SelectSeq(todayTxs(txs, t), LAMBDA tx : tx.type = Str("INCOME")
                                                          \/ tx.type = Str("DEBT_PAYMENT")), 0)

\* App.tsx:313
expenseToday(txs, t) ==
    reduceAmounts(SelectSeq(todayTxs(txs, t), LAMBDA tx : tx.type = Str("EXPENSE")), 0)

\* One of the three buttons of the Choose Audit Period dialog (App.tsx:498),
\* opened from the dashboard (App.tsx:346).
SelectReport(type) ==
    /\ MainShown
    /\ activeTab = "dashboard"
    /\ reportType' = type
    /\ UNCHANGED <<variant, ext, saved, rendered, showOnboarding, user, transactions, store, activeTab,
                   inputText, parsing, pendingConfirm, calls, now>>

\* The moment the report is asked for, and the moments the transactions of
\* the list were committed at: earlier that day, at its midnight, the day
\* before, seven and thirty days before, and one reading before those.
ReportNow == 31 * DayLength + 1
ReportDates ==
    {ReportNow, ReportNow - 1, ReportNow - 2,
     ReportNow - 7 * DayLength, ReportNow - 7 * DayLength - 1,
     ReportNow - 30 * DayLength, ReportNow - 30 * DayLength - 1}
ReportAmounts == {5000, -5}

ReportTx(type, amount, t) ==
    [id |-> ToString(t),
     type |-> Str(type),
     amount |-> Num(amount),
     category |-> Str("General"),
     counterparty |-> IF type \in {"DEBT", "DEBT_PAYMENT"} THEN Str("Musa") ELSE Undefined,
     date |-> toISOString(t)]

ReportTxs ==
    {ReportTx(type, amount, t) :
        type \in TransactionTypes, amount \in ReportAmounts, t \in ReportDates}

\* The lists of at most MaxTx transactions, newest first.
ReportLists ==
    UNION { {txs \in [1..n -> ReportTxs] :
                \A j \in 1..(n - 1) : DateOf(txs[j]) >= DateOf(txs[j + 1])} : n \in 0..MaxTx }

InitReport ==
    /\ variant = "geminiService"
    /\ ext = NoCall
    /\ user = FirstEmail
    /\ transactions \in ReportLists
    /\ store = [u \in UserIds |-> transactions]
    /\ saved = [e \in Emails |-> IF e = FirstEmail THEN transactions ELSE <<>>]
    /\ activeTab = "dashboard"
    /\ inputText = ""
    /\ parsing = FALSE
    /\ pendingConfirm = NoResult
    /\ showOnboarding = FALSE
    /\ calls = EmptyBag
    /\ now = ReportNow
    /\ reportType = NoReport
    /\ rendered = transactions

NextReport == \E type \in ReportTypes : SelectReport(type)

SpecReport == InitReport /\ [][NextReport]_vars

----------------------------------------------------------------------------
(* The debts tab (App.tsx:389-404) on ledgers of several debtors, as       *)
(* confirmTransaction and clearFullDebt make them: the newest comes first, *)
(* every transaction has the clock's reading of its commit as its id.      *)

\* The most transactions a ledger of debts starts with.
MaxDebts == 3

DebtNames == {"Musa", "John"}
DebtEntries ==
    [type : {"DEBT", "DEBT_PAYMENT"}, name : {"Musa", "Musa ", "John"},
     amount : {5000, 2000}]
    \cup {[type |-> "INCOME", name |-> "", amount |-> 5000]}

DebtTx(e, t) ==
    [id |-> ToString(t),
     type |-> Str(e.type),
     amount |-> Num(e.amount),
     category |-> Str("General"),
     counterparty |-> IF e.name = "" THEN Undefined ELSE Str(e.name),
     date |-> toISOString(t)]

\* The ledgers of n transactions, committed at the readings 0 .. n - 1.
DebtLists(n) == {[j \in 1..n |-> DebtTx(f[j], n - j)] : f \in [1..n -> DebtEntries]}

InitDebts ==
    /\ variant = "geminiService"
    /\ ext = NoCall
    /\ user = FirstEmail
    /\ \E n \in 0..MaxDebts :
          /\ transactions \in DebtLists(n)
          /\ now = n
    /\ store = [u \in UserIds |-> transactions]
    /\ saved = [e \in Emails |-> IF e = FirstEmail THEN transactions ELSE <<>>]
    /\ activeTab = "debts"
    /\ inputText = ""
    /\ parsing = FALSE
    /\ pendingConfirm = NoResult
    /\ showOnboarding = FALSE
    /\ calls = EmptyBag
    /\ reportType = NoReport
    /\ rendered = transactions

NextDebts == \E d \in debtBalances(rendered) : clearFullDebt(d) /\ Rerender

SpecDebts == InitDebts /\ [][NextDebts]_vars

\* React renders the list that the state holds.
Render ==
    /\ rendered # transactions
    /\ rendered' = transactions
    /\ UNCHANGED <<variant, ext, user, transactions, store, activeTab, inputText,
                   parsing, pendingConfirm, showOnboarding, calls, now,
                   reportType, saved>>

\* The debts tab when a second Settle handler of a render may run before
\* React has rendered the list that the first one set.
NextClosure ==
    \/ \E d \in debtBalances(rendered) : clearFullDebt(d) /\ UNCHANGED rendered
    \/ Render

SpecClosure == InitDebts /\ [][NextClosure]_vars

\* What a name owes: the sum of its DEBT amounts minus the sum of its
\* DEBT_PAYMENT amounts.
Owes(name, txs) ==
    LET of(type) == SelectSeq(txs, LAMBDA tx : /\ tx.type = Str(type)
                                               /\ tx.counterparty.k = "string"
                                               /\ TrimStr(tx.counterparty.s) = name)
    IN  reduceAmounts(of("DEBT"), 0) - reduceAmounts(of("DEBT_PAYMENT"), 0)

----------------------------------------------------------------------------
(* Claims about the App.                                                   *)

\* C6: every committed transaction of type DEBT or DEBT_PAYMENT carries a
\* non-empty counterparty.
C6_DebtHasCounterparty ==
    \A j \in 1..Len(transactions) :
        transactions[j].type \in {Str("DEBT"), Str("DEBT_PAYMENT")} =>
            /\ transactions[j].counterparty.k = "string"
            /\ transactions[j].counterparty.s # ""

\* C7: no two transactions of the committed list have the same id, also
\* when two commits read the same clock value.
C7_IdsUnique ==
    \A i, j \in 1..Len(transactions) :
        i # j => transactions[i].id # transactions[j].id

\* C8: every committed transaction has an amount that is not negative.
C8_AmountNonNegative ==
    \A j \in 1..Len(transactions) : transactions[j].amount.n >= 0

\* C9: at most one extraction call started by handleAction or
\* handleFileUpload is outstanding at any time.
C9_OneCallOutstanding == BagCardinality(calls) <= 1

\* C10: a call that returns after the user has navigated away from the
\* record tab (where every call starts) changes neither pendingConfirm nor
\* activeTab.  The user has navigated away when the active tab is one that
\* only a navigation button leads to and nothing has been confirmed.
C10_ResultDiscardedWhenAway ==
    [][ ( /\ BagCardinality(calls') < BagCardinality(calls)
          /\ activeTab \in {"dashboard", "debts", "settings"}
          /\ transactions = <<>> )
        => (pendingConfirm' = pendingConfirm /\ activeTab' = activeTab) ]_vars

\* C11: whenever parsing has been set to true by handleAction or
\* handleFileUpload, it is set back to false later on.
C11_ParsingEventuallyFalse == parsing ~> ~parsing

\* C12: a result of the extractor becomes a transaction only through the
\* Verify Detail panel: a step that returns a call leaves the transaction
\* list alone, a result held in pendingConfirm has intent RECORD, and a step
\* that adds a transaction other than a settlement is confirmTransaction
\* acting on the result held in pendingConfirm; dismissing the panel adds
\* nothing.
C12_CommitOnlyAfterConfirm ==
    [][ /\ (BagCardinality(calls') < BagCardinality(calls) /\ user' = user)
              => transactions' = transactions
        /\ (pendingConfirm # NoResult /\ pendingConfirm' = NoResult /\ calls' = calls
               /\ transactions' # transactions)
              => Get(pendingConfirm, "intent") = Str("RECORD")
        /\ (user' = user /\ Len(transactions') > Len(transactions)
               /\ Head(transactions').category # Str("Settlement"))
              => /\ pendingConfirm # NoResult
                 /\ Get(pendingConfirm, "intent") = Str("RECORD")
                 /\ pendingConfirm' = NoResult
                 /\ Tail(transactions') = transactions
                 /\ Head(transactions').type = Or(Get(pendingConfirm, "type"), Str("INCOME")) ]_vars

C12_Witness ==
    /\ Len(transactions) = 2
    /\ transactions[1].category = Str("Credit")
    /\ transactions[2].category = Str("General")
    /\ pendingConfirm = NoResult
    /\ BagCardinality(calls) = 1

\* The response objects with intent RECORD and no amount come back from
\* parseInputText with intent RECORD and no amount.
PartialExtractionKept ==
    \A text \in Chips : \A env \in Envs(TextResponseObjects) :
        ( /\ env.ctor = "ok"
          /\ env.resp.kind = "resolved"
          /\ env.resp.body.t = "json"
          /\ Get(env.resp.body.v, "intent") = Str("RECORD")
          /\ "amount" \notin DOMAIN env.resp.body.v )
        => LET out == parseInputText(variant, text, env)
           IN  /\ ~out.threw
               /\ Get(out.value, "intent") = Str("RECORD")
               /\ "amount" \notin DOMAIN out.value

\* C14: a RECORD response without an amount is returned by parseInputText
\* as it is, not as UNKNOWN, and when the user confirms such a result the
\* committed transaction has amount 0.
C14_PartialExtractionCommitsZero ==
    /\ []PartialExtractionKept
    /\ [][ ( /\ pendingConfirm # NoResult
              /\ Get(pendingConfirm, "intent") = Str("RECORD")
              /\ "amount" \notin DOMAIN pendingConfirm
              /\ pendingConfirm' = NoResult
              /\ Len(transactions') > Len(transactions) )
            => Head(transactions').amount = Num(0) ]_vars

C14_Witness ==
    /\ Len(transactions) = 1
    /\ transactions[1].amount = Num(0)
    /\ transactions[1].type = Str("INCOME")
    /\ transactions[1].category = Str("General")
    /\ activeTab = "dashboard"
    /\ inputText = ""

\* The results parseReceiptImage makes of a response: their rawText is
\* `Receipt from ...`.
IsReceiptResult(r) ==
    Get(r, "rawText") \in
        {Str(ReceiptRawText(o)) : o \in ReceiptResponseObjects \cup {EmptyObj}}

\* C15: a receipt whose extracted fields carry no type becomes, once
\* confirmed, a transaction of type EXPENSE.
C15_ReceiptDefaultsToExpense ==
    [][ ( /\ pendingConfirm # NoResult
          /\ IsReceiptResult(pendingConfirm)
          /\ "type" \notin DOMAIN pendingConfirm
          /\ pendingConfirm' = NoResult
          /\ Len(transactions') > Len(transactions) )
        => Head(transactions').type = Str("EXPENSE") ]_vars

\* The sum of the amounts of the transactions at the positions S of a list.
RECURSIVE SumOver(_, _)
SumOver(S, txs) ==
    IF S = {} THEN 0
    ELSE LET j == CHOOSE x \in S : TRUE
         IN  txs[j].amount.n + SumOver(S \ {j}, txs)

\* The positions of the transactions of the given types dated from the
\* given moment on.
Dated(txs, from, types) ==
    {j \in 1..Len(txs) : DateOf(txs[j]) >= from /\ txs[j].type \in {Str(ty) : ty \in types}}

\* C16: the inflow of a report is the sum of the INCOME and DEBT_PAYMENT
\* amounts dated inside its window, its outflow the sum of the EXPENSE
\* amounts inside the window, its net their difference, and the DEBT
\* transactions add to neither; so for the totals of today on the dashboard.
C16_ReportSums ==
    reportType # NoReport =>
        LET r == reportData(reportType, transactions, now)
            from == CASE reportType = "daily" -> now - (now % DayLength)
                      [] reportType = "weekly" -> now - 7 * DayLength
                      [] reportType = "monthly" -> now - 30 * DayLength
            today == now - (now % DayLength)
        IN  /\ r.totalIn = SumOver(Dated(transactions, from, {"INCOME", "DEBT_PAYMENT"}),
                                   transactions)
            /\ r.totalOut = SumOver(Dated(transactions, from, {"EXPENSE"}), transactions)
            /\ r.net = r.totalIn - r.totalOut
            /\ r.totalIn + r.totalOut =
                  SumOver(Dated(transactions, from, TransactionTypes), transactions)
                  - SumOver(Dated(transactions, from, {"DEBT"}), transactions)
            /\ incomeToday(transactions, now) =
                  SumOver(Dated(transactions, today, {"INCOME", "DEBT_PAYMENT"}), transactions)
            /\ expenseToday(transactions, now) =
                  SumOver(Dated(transactions, today, {"EXPENSE"}), transactions)

C16_Witness ==
    /\ reportType = "weekly"
    /\ Len(transactions) = 2
    /\ transactions[1].type = Str("DEBT_PAYMENT")
    /\ DateOf(transactions[1]) = now - 7 * DayLength
    /\ transactions[2].type = Str("INCOME")
    /\ DateOf(transactions[2]) = now - 7 * DayLength - 1
    /\ reportData(reportType, transactions, now).totalIn = transactions[1].amount.n
    /\ transactions[1].amount.n = 5000

\* C17: the persisted lists are scoped by their owner: the list shown to a
\* signed-in user is the list that user last saved (empty when the user has
\* saved nothing), whoever else has signed in and saved on the device.
C17_StoreScopedByOwner == LoggedIn => transactions = saved[user]

\* The service answers with a QUERY object.
QueryAnswers ==
    {env \in Envs({o \in TextResponseObjects : Get(o, "intent") = Str("QUERY")}) :
        env.resp.kind = "resolved" /\ env.resp.body.t = "json"}

C21_CategoryDefaultsToGeneral ==
    /\ [](\A j \in 1..Len(transactions) :
            /\ transactions[j].category.k = "string"
            /\ transactions[j].category.s # "")
    /\ [][ ( /\ pendingConfirm # NoResult
              /\ Get(pendingConfirm, "category") \in {Undefined, Str("")}
              /\ pendingConfirm' = NoResult
              /\ Len(transactions') > Len(transactions) )
            => Head(transactions').category = Str("General") ]_vars

C21_Witness ==
    /\ Len(transactions) = 2
    /\ transactions[1].category = Str("General")
    /\ transactions[1].type = Str("DEBT")
    /\ transactions[2].category = Str("General")
    /\ transactions[2].type = Str("INCOME")

\* C24: a commit puts its new transaction at the head of the list and keeps
\* every transaction committed before it, in its order, also when the
\* handler runs against a render older than the list.
C24_NoCommitLost ==
    [][ (user' = user /\ transactions' # transactions)
        => /\ Len(transactions') = Len(transactions) + 1
           /\ Tail(transactions') = transactions ]_vars

NeverFalseInFlight == calls # EmptyBag => parsing

\* C26: parsing is true exactly while an extraction call started by
\* handleAction or handleFileUpload has not returned, and it is never false
\* while a call is in flight.
C26_ParsingAccurate ==
    /\ parsing => calls # EmptyBag
    /\ NeverFalseInFlight

====
